---- MODULE Spec2Model ----
(***************************************************************************)
(* Model of the Terneo/Welrok thermostat client                            *)
(* (custom_components/terneo/thermostat.py, class TerneoThermostat) and of *)
(* the way the host starts its calls from executor threads                 *)
(* (custom_components/terneo/__init__.py, number.py).                      *)
(*                                                                         *)
(* Python values are tagged records [t |-> tag, v |-> value]; strings are  *)
(* sequences of one-character strings so that int() and float() parse      *)
(* them digit by digit.  Floats are fixed-point numbers counted in         *)
(* 1/FloatDen of a unit.  Time is counted in ticks of 1/TicksPerSecond s.  *)
(***************************************************************************)
EXTENDS Integers, Sequences, FiniteSets, TLC

\* ------------------------------------------------------------------------
\* Bounds of the model
\* ------------------------------------------------------------------------
TicksPerSecond == 2
MaxDur == 1
\* wire temperatures run over -MaxWire..MaxWire, watts over 0..MaxWatts
MaxWire == 32768
MaxWatts == 3100

\* ------------------------------------------------------------------------
\* const.py
\* ------------------------------------------------------------------------
DEVICE_TYPE_OLD == "old"
DEVICE_TYPE_NEW == "new"
CMD_GET_PARAMS == 1
CMD_GET_STATUS == 4

MODE == 2
CONTROL_TYPE == 3
MANUAL_AIR == 4
MANUAL_FLOOR == 5
AWAY_AIR == 6
AWAY_FLOOR == 7
MIN_TEMP_ADVANCED == 14
MAX_TEMP_ADVANCED == 15
AIR_CORRECTION == 20
UPPER_LIMIT == 26
LOWER_LIMIT == 27
UPPER_AIR_LIMIT == 33
LOWER_AIR_LIMIT == 34
BLE_SENSOR_INTERVAL == 35
BLE_SENSOR_BIND == 36
UPPER_WARNING_TEMP == 62
LOWER_WARNING_TEMP == 63
WINDOW_OPEN_CONTROL == 122
POWER_OFF == 125
POWER == 17
SENSOR_TYPE == 18
HYSTERESIS == 19
FLOOR_CORRECTION == 21
BRIGHTNESS == 23
PROP_KOEF == 25
NIGHT_BRIGHT_START == 52
NIGHT_BRIGHT_END == 53
BUTTON_MINUS_COR == 80
BUTTON_MENU_COR == 81
BUTTON_PLUS_COR == 82

CSTRING == 0
INT8 == 1
UINT8 == 2
INT16 == 3
UINT16 == 4
INT32 == 5
UINT32 == 6
BOOL == 7

ControlType_FLOOR == 0
OperationMode_SCHEDULE == 0
OperationMode_MANUAL == 3

\* ------------------------------------------------------------------------
\* Python values
\* ------------------------------------------------------------------------
PyNone == [t |-> "None"]
PyBool(b) == [t |-> "bool", v |-> b]
PyInt(n) == [t |-> "int", v |-> n]
PyFloat(q) == [t |-> "float", v |-> q]
PyStr(cs) == [t |-> "str", v |-> cs]
PyList(xs) == [t |-> "list", v |-> xs]
PyDict(f) == [t |-> "dict", v |-> f]
\* the outcome of an expression that raised
Raised == [t |-> "raise"]

\* fixed-point denominator of PyFloat: a multiple of 16 (status readings) and
\* of 10 (parameter temperatures)
Sixteen == 16
Ten == 10
FloatDen == Sixteen * 5

EmptyDict == [k \in {} |-> PyNone]

\* x == y of Python for the values of the model (no numeric tower needed:
\* the code compares strings with strings and None)
PyEq(x, y) == x.t = y.t /\ (x.t = "None" \/ x.v = y.v)

\* bool(x): truth value of a Python object
Truthy(x) ==
    CASE x.t = "None" -> FALSE
      [] x.t = "bool" -> x.v
      [] x.t = "int" -> x.v # 0
      [] x.t = "float" -> x.v # 0
      [] x.t = "str" -> Len(x.v) > 0
      [] x.t = "list" -> Len(x.v) > 0
      [] x.t = "dict" -> DOMAIN x.v # {}

DigitChars == <<"0", "1", "2", "3", "4", "5", "6", "7", "8", "9">>
IsDigit(c) == \E i \in 1..10 : DigitChars[i] = c
DigitVal(c) == (CHOOSE i \in 1..10 : DigitChars[i] = c) - 1

RECURSIVE NatOf(_)
\* value of a non-empty sequence of digits
NatOf(cs) ==
    IF Len(cs) = 0 THEN 0
    ELSE NatOf(SubSeq(cs, 1, Len(cs) - 1)) * 10 + DigitVal(cs[Len(cs)])

AllDigits(cs) == Len(cs) > 0 /\ \A i \in 1..Len(cs) : IsDigit(cs[i])

\* int("..."): optional sign, then digits; anything else is a ValueError
ParseInt(cs) ==
    IF Len(cs) > 0 /\ cs[1] \in {"-", "+"}
    THEN IF AllDigits(Tail(cs))
         THEN PyInt(IF cs[1] = "-" THEN 0 - NatOf(Tail(cs)) ELSE NatOf(Tail(cs)))
         ELSE Raised
    ELSE IF AllDigits(cs) THEN PyInt(NatOf(cs)) ELSE Raised

\* int(x) of Python
int(x) ==
    CASE x.t = "str" -> ParseInt(x.v)
      [] x.t = "int" -> x
      [] x.t = "bool" -> PyInt(IF x.v THEN 1 ELSE 0)
      [] x.t = "float" ->
           PyInt(IF x.v >= 0 THEN x.v \div FloatDen ELSE 0 - ((0 - x.v) \div FloatDen))
      [] OTHER -> Raised

\* float(x) of Python, for the integer literals and numbers of the model
float(x) ==
    CASE x.t = "str" ->
           (IF ParseInt(x.v) = Raised THEN Raised
            ELSE PyFloat(ParseInt(x.v).v * FloatDen))
      [] x.t = "int" -> PyFloat(x.v * FloatDen)
      [] x.t = "bool" -> PyFloat(IF x.v THEN FloatDen ELSE 0)
      [] x.t = "float" -> x
      [] OTHER -> Raised

\* str(n) of Python for an integer
RECURSIVE NatStr(_)
NatStr(n) ==
    IF n < 10 THEN <<DigitChars[n + 1]>>
    ELSE Append(NatStr(n \div 10), DigitChars[(n % 10) + 1])

str(n) == PyStr(IF n < 0 THEN <<"-">> \o NatStr(0 - n) ELSE NatStr(n))

\* d.get(k) and k in d for a dict d (a function from keys to values)
DictGet(d, k) == IF k \in DOMAIN d THEN d[k] ELSE PyNone

\* ------------------------------------------------------------------------
\* The device's answers
\* ------------------------------------------------------------------------
SN == "SN"

\* what requests.post gives: an exception (kind "error") or an HTTP response
\* whose r.json() is body, Raised when the body is not JSON
TransportError == [kind |-> "error", code |-> 0, body |-> Raised]
HttpResponse(code, body) == [kind |-> "http", code |-> code, body |-> body]

S_timeout == PyStr(<<"t", "i", "m", "e", "o", "u", "t">>)
S_true == PyStr(<<"t", "r", "u", "e">>)

\* parameter lists of read-parameters answers: triples <<id, type, value>>
ParNew ==
    << <<UPPER_LIMIT, UINT8, str(35)>>, <<CONTROL_TYPE, UINT8, str(1)>>,
       <<POWER_OFF, BOOL, str(0)>>, <<MANUAL_AIR, INT16, str(215)>>,
       <<AWAY_AIR, INT16, str(150)>>, <<MIN_TEMP_ADVANCED, INT8, str(5)>>,
       <<MAX_TEMP_ADVANCED, INT8, str(40)>>, <<AIR_CORRECTION, INT8, str(-12)>>,
       <<UPPER_AIR_LIMIT, INT8, str(30)>>, <<LOWER_AIR_LIMIT, INT8, str(5)>>,
       <<BLE_SENSOR_INTERVAL, UINT8, str(10)>>, <<BLE_SENSOR_BIND, BOOL, str(1)>>,
       <<UPPER_WARNING_TEMP, INT8, str(45)>>, <<LOWER_WARNING_TEMP, INT8, str(3)>>,
       <<WINDOW_OPEN_CONTROL, BOOL, str(1)>> >>
ParOff ==
    << <<UPPER_LIMIT, UINT8, str(40)>>, <<POWER_OFF, BOOL, str(1)>>,
       <<UPPER_LIMIT, UINT8, str(45)>> >>
ParShort == << <<UPPER_LIMIT, UINT8, str(35)>>, <<POWER_OFF, BOOL>> >>

BodyParNew == PyDict([k \in {"par"} |-> PyList(ParNew)])
BodyParOff == PyDict([k \in {"par"} |-> PyList(ParOff)])
BodyParShort == PyDict([k \in {"par"} |-> PyList(ParShort)])

\* status answers
BodyStatusOn ==
    PyDict([k \in {"t.1", "t.5", "m.1", "f.0"} |->
        CASE k = "t.1" -> str(384) [] k = "t.5" -> str(320)
          [] k = "m.1" -> str(3) [] k = "f.0" -> str(1)])
BodyStatusOff ==
    PyDict([k \in {"t.1", "t.2", "t.5", "m.1", "f.0", "f.16"} |->
        CASE k = "t.1" -> str(400) [] k = "t.2" -> str(352) [] k = "t.5" -> str(96)
          [] k = "m.1" -> str(0) [] k = "f.0" -> str(0) [] k = "f.16" -> str(1)])
BodyStatusBad ==
    PyDict([k \in {"t.1", "t.5"} |->
        CASE k = "t.1" -> str(384) [] k = "t.5" -> PyStr(<<"a", "b", "c">>)])

BodyTimeout == PyDict([k \in {"status"} |-> S_timeout])
BodyEmpty == PyDict(EmptyDict)
BodyArray == PyList(<<>>)
BodySuccess == PyDict([k \in {"success"} |-> S_true])

\* the status keys the client reads
StatusKeys == {"t.1", "t.2", "t.5", "m.1", "f.0", "f.16"}

\* what kind of answer resp is, as the log of a call records it
AnswerClass(resp) ==
    IF resp.kind = "error" THEN "error"
    ELSE IF resp.body = Raised THEN "not_json"
    ELSE IF resp.body.t # "dict" THEN "not_object"
    ELSE IF "status" \in DOMAIN resp.body.v /\ resp.body.v["status"] = S_timeout
    THEN "timeout"
    ELSE IF DOMAIN resp.body.v = {} THEN "empty"
    ELSE IF "par" \in DOMAIN resp.body.v
    THEN (IF \A i \in 1..Len(resp.body.v["par"].v) : Len(resp.body.v["par"].v[i]) >= 3
          THEN "par" ELSE "par_short")
    ELSE IF \E k \in DOMAIN resp.body.v \cap StatusKeys :
                resp.body.v[k].t = "str" /\
                ~AllDigits(IF resp.body.v[k].v[1] = "-" THEN Tail(resp.body.v[k].v)
                           ELSE resp.body.v[k].v)
    THEN "undecodable"
    ELSE IF "success" \in DOMAIN resp.body.v THEN "ack"
    ELSE "object"

\* answers that fail whatever the request was
Failures ==
    { TransportError, HttpResponse(200, Raised), HttpResponse(200, BodyArray),
      HttpResponse(200, BodyTimeout), HttpResponse(200, BodyEmpty) }

\* answers to each kind of request
ParamResponses ==
    Failures \cup {HttpResponse(200, b) :
                      b \in {BodyParNew, BodyParOff, BodyParShort, BodySuccess}}
StatusResponses ==
    Failures \cup {HttpResponse(200, b) :
                      b \in {BodyStatusOn, BodyStatusOff, BodyStatusBad}}
WriteResponses == Failures \cup {HttpResponse(200, BodySuccess)}
RestartResponses ==
    Failures \cup {HttpResponse(200, BodySuccess), HttpResponse(200, BodyStatusOn)}

\* ------------------------------------------------------------------------
\* State
\* ------------------------------------------------------------------------
\* Instants are counted from the present: time.time() is 0 when a call starts,
\* a past instant is negative, and every instant a second or more ago is kept
\* as -TicksPerSecond (the code only asks whether less than a second passed).
VARIABLES
    self,      \* the TerneoThermostat object: its instance fields
    wire,      \* the instant the newest POST request was put on the wire
    last,      \* the call that has just returned: name, the object before
               \* it, the requests it sent, its result
    threads,   \* the executor threads of the host: where each is in its call
    device     \* the thermostat at the other end: what it stores and reports

vars == <<self, wire, last, threads, device>>

LongAgo == 0 - TicksPerSecond
Ago(t, shift) == IF t - shift < LongAgo THEN LongAgo ELSE t - shift
Gap(sent, before) == IF sent - before > TicksPerSecond THEN TicksPerSecond ELSE sent - before

\* A call runs on a frame m: the object, the clock, the POST requests sent so
\* far by the call and whether an exception is propagating.
Frame == [self |-> self, now |-> 0, last_start |-> wire, posts |-> <<>>, exc |-> FALSE]

\* the cached device state: parameter table, stored status, derived fields
CacheOf(s) ==
    [_parameters |-> s._parameters, _status |-> s._status,
     _setpoint |-> s._setpoint, _floor_temperature |-> s._floor_temperature,
     _air_temperature |-> s._air_temperature, _mode |-> s._mode,
     _relay_state |-> s._relay_state, _power_on |-> s._power_on]

\* ------------------------------------------------------------------------
\* Transport
\* ------------------------------------------------------------------------
\* time.sleep(1) of the rate limiter, in ticks
SleepTicks == TicksPerSecond

\* mutant of SendTime: the rate limiter never sleeps
SendTime_NoSleep(m) == m.now

\* _post, rate limiting: the instant the request goes out
SendTime(m) ==
    IF m.now - m.self._last_request < TicksPerSecond
    THEN m.now + SleepTicks ELSE m.now

\* mutant of PostFailed: the failed attempt is not stamped
PostFailed_NoStamp(m) ==
    [m |-> [m EXCEPT !.self._available = FALSE], ret |-> PyBool(FALSE)]

\* _post, requests.post raised: m is the frame at that instant
PostFailed(m) ==
    [m |-> [m EXCEPT !.self._available = FALSE, !.self._last_request = m.now],
     ret |-> PyBool(FALSE)]

\* mutant of JsonFailed: a malformed body counts as a transport failure
JsonFailed_Unavailable(m) ==
    [m |-> [m EXCEPT !.self._available = FALSE], ret |-> PyBool(FALSE)]

\* _post, r.json() raised
JsonFailed(m) == [m |-> m, ret |-> PyBool(FALSE)]

\* _post after requests.post returned or raised, at instant m.now
Answered(m, resp) ==
    IF resp.kind = "error" THEN PostFailed(m)
    ELSE LET m2 == [m EXCEPT !.self._last_request = m.now]
         IN  IF resp.body = Raised THEN JsonFailed(m2)
             ELSE IF resp.body.t # "dict"
             THEN [m |-> [m2 EXCEPT !.exc = TRUE], ret |-> Raised]
             ELSE IF PyEq(DictGet(resp.body.v, "status"), S_timeout)
             THEN [m |-> m2, ret |-> PyBool(FALSE)]
             ELSE [m |-> [m2 EXCEPT !.self._available = TRUE], ret |-> resp.body]

\* _post: returns [m |-> frame after the call, ret |-> False or the content]
_post(m, endpoint, json, resp, dur) ==
    LET start_time == m.now
        sent == SendTime(m)
    IN  Answered([m EXCEPT !.now = sent + dur,
                           !.last_start = sent,
                           !.posts = Append(@, [endpoint |-> endpoint, json |-> json,
                                                waited |-> sent - start_time,
                                                gap |-> Gap(sent, m.last_start),
                                                answer |-> AnswerClass(resp)])],
                 resp)

\* {p[0]: (p[1], p[2]) for p in par}: a later entry of an id overwrites
ParTable(par) ==
    [id \in {par[i][1] : i \in 1..Len(par)} |->
        LET at == {j \in 1..Len(par) : par[j][1] = id}
            i == CHOOSE j \in at : \A k \in at : k <= j
        IN  <<par[i][2], par[i][3]>>]

\* mutant of GotParameters: an answer without par empties the table
GotParameters_Default(r) ==
    IF r.m.exc THEN r
    ELSE IF Truthy(r.ret)
    THEN LET par == IF "par" \in DOMAIN r.ret.v THEN r.ret.v["par"].v ELSE <<>>
         IN  IF \E i \in 1..Len(par) : Len(par[i]) < 3
             THEN [m |-> [r.m EXCEPT !.exc = TRUE], ret |-> Raised]
             ELSE [m |-> [r.m EXCEPT !.self._parameters = ParTable(par)],
                   ret |-> IF "par" \in DOMAIN r.ret.v THEN r.ret ELSE PyBool(FALSE)]
    ELSE [m |-> r.m, ret |-> PyBool(FALSE)]

\* get_parameters, once _post returned r
GotParameters(r) ==
    IF r.m.exc THEN r
    ELSE IF Truthy(r.ret) /\ "par" \in DOMAIN r.ret.v
    THEN LET par == r.ret.v["par"].v
         IN  IF \E i \in 1..Len(par) : Len(par[i]) < 3
             THEN [m |-> [r.m EXCEPT !.exc = TRUE], ret |-> Raised]
             ELSE [m |-> [r.m EXCEPT !.self._parameters = ParTable(par)],
                   ret |-> r.ret]
    ELSE [m |-> r.m, ret |-> PyBool(FALSE)]

get_parameters(m, resp, dur) ==
    GotParameters(_post(m, "api", [cmd |-> CMD_GET_PARAMS, sn |-> SN], resp, dur))

\* mutant of set_parameters: a failed write is sent once more
set_parameters_Retry(m, params, resp, dur) ==
    LET r == _post(m, "api", [sn |-> SN, par |-> params], resp, dur)
    IN  IF ~r.m.exc /\ ~Truthy(r.ret)
        THEN _post(r.m, "api", [sn |-> SN, par |-> params], resp, dur)
        ELSE r

set_parameters(m, params, resp, dur) ==
    _post(m, "api", [sn |-> SN, par |-> params], resp, dur)

\* mutant of GotStatus: a failed read falls back on the stored status
GotStatus_Stale(r) ==
    IF r.m.exc THEN r
    ELSE IF Truthy(r.ret)
    THEN [m |-> [r.m EXCEPT !.self._status = r.ret.v], ret |-> r.ret]
    ELSE [m |-> r.m, ret |-> PyDict(r.m.self._status)]

\* get_status, once _post returned r
GotStatus(r) ==
    IF r.m.exc THEN r
    ELSE IF Truthy(r.ret)
    THEN [m |-> [r.m EXCEPT !.self._status = r.ret.v], ret |-> r.ret]
    ELSE r

get_status(m, resp, dur) ==
    GotStatus(_post(m, "api", [cmd |-> CMD_GET_STATUS, sn |-> SN], resp, dur))

\* mutant of restart: any truthy success value counts
restart_Truthy(m, resp, dur) ==
    LET r == _post(m, "test", [cmd |-> "restart"], resp, dur)
    IN  IF r.m.exc THEN r
        ELSE [m |-> r.m,
              ret |-> PyBool(Truthy(r.ret) /\ Truthy(DictGet(r.ret.v, "success")))]

restart(m, resp, dur) ==
    LET r == _post(m, "test", [cmd |-> "restart"], resp, dur)
    IN  IF r.m.exc THEN r
        ELSE [m |-> r.m,
              ret |-> PyBool(Truthy(r.ret) /\ PyEq(DictGet(r.ret.v, "success"), S_true))]

\* ------------------------------------------------------------------------
\* Cache readers and converters
\* ------------------------------------------------------------------------
_convert_value(value, data_type) ==
    IF data_type = BOOL THEN PyBool(PyEq(value, str(1)))
    ELSE IF data_type \in {INT8, INT16, INT32} THEN int(value)
    ELSE IF data_type \in {UINT8, UINT16, UINT32} THEN int(value)
    ELSE value

_get_param_value(s, param_num) ==
    IF param_num \in DOMAIN s._parameters
    THEN _convert_value(s._parameters[param_num][2], s._parameters[param_num][1])
    ELSE PyNone

\* x / n for a Python number x and a float literal n (10.0, 16.0)
TrueDiv(x, n) ==
    CASE x.t = "int" -> PyFloat((x.v * FloatDen) \div n)
      [] x.t = "bool" -> PyFloat((IF x.v THEN FloatDen ELSE 0) \div n)
      [] x.t = "float" -> PyFloat(x.v \div n)
      [] OTHER -> Raised

\* x * n for a Python number x and an integer n
Times(x, n) ==
    CASE x.t = "int" -> PyInt(x.v * n)
      [] x.t = "float" -> PyFloat(x.v * n)
      [] OTHER -> Raised

_temperature_from_api(s, value, param_num) ==
    IF s._is_new_version THEN TrueDiv(value, Ten) ELSE float(value)

\* mutant of _temperature_to_api: the new generation is not scaled by ten
_temperature_to_api_Unscaled(s, value, param_num) == str(int(value).v)

_temperature_to_api(s, value, param_num) ==
    IF s._is_new_version THEN str(int(Times(value, Ten)).v) ELSE str(int(value).v)

available(s) == s._available
power_on(s) == s._power_on
floor_temperature(s) == s._floor_temperature
air_temperature(s) == s._air_temperature
setpoint(s) == s._setpoint
mode(s) == s._mode
relay_state(s) == s._relay_state
control_type(s) == _get_param_value(s, CONTROL_TYPE)
upper_limit(s) == _get_param_value(s, UPPER_LIMIT)
lower_limit(s) == _get_param_value(s, LOWER_LIMIT)
night_bright_start(s) == _get_param_value(s, NIGHT_BRIGHT_START)
night_bright_end(s) == _get_param_value(s, NIGHT_BRIGHT_END)
button_menu_cor(s) == _get_param_value(s, BUTTON_MENU_COR)
button_plus_cor(s) == _get_param_value(s, BUTTON_PLUS_COR)

\* generation-only getters
upper_air_limit(s) ==
    IF s._is_new_version THEN _get_param_value(s, UPPER_AIR_LIMIT) ELSE PyNone
lower_air_limit(s) ==
    IF s._is_new_version THEN _get_param_value(s, LOWER_AIR_LIMIT) ELSE PyNone
window_open_control(s) ==
    IF s._is_new_version THEN _get_param_value(s, WINDOW_OPEN_CONTROL) ELSE PyNone
min_temp_advanced(s) ==
    IF s._is_new_version THEN _get_param_value(s, MIN_TEMP_ADVANCED) ELSE PyNone
max_temp_advanced(s) ==
    IF s._is_new_version THEN _get_param_value(s, MAX_TEMP_ADVANCED) ELSE PyNone
ble_sensor_interval(s) ==
    IF s._is_new_version THEN _get_param_value(s, BLE_SENSOR_INTERVAL) ELSE PyNone
ble_sensor_bind(s) ==
    IF s._is_new_version THEN _get_param_value(s, BLE_SENSOR_BIND) ELSE PyNone
upper_warning_temp(s) ==
    IF s._is_new_version THEN _get_param_value(s, UPPER_WARNING_TEMP) ELSE PyNone
lower_warning_temp(s) ==
    IF s._is_new_version THEN _get_param_value(s, LOWER_WARNING_TEMP) ELSE PyNone

air_correction(s) ==
    IF s._is_new_version
    THEN LET value == _get_param_value(s, AIR_CORRECTION)
         IN  IF value # PyNone THEN TrueDiv(value, Ten) ELSE PyNone
    ELSE PyNone

away_air_temperature(s) ==
    IF s._is_new_version
    THEN LET value == _get_param_value(s, AWAY_AIR)
         IN  IF value # PyNone THEN _temperature_from_api(s, value, AWAY_AIR) ELSE PyNone
    ELSE PyNone

manual_air_temperature(s) ==
    IF s._is_new_version
    THEN LET value == _get_param_value(s, MANUAL_AIR)
         IN  IF value # PyNone THEN _temperature_from_api(s, value, MANUAL_AIR) ELSE PyNone
    ELSE PyNone

power_watts(s) ==
    LET value == _get_param_value(s, POWER)
    IN  IF value # PyNone
        THEN (IF value.v <= 150 THEN Times(value, 10) ELSE PyInt(value.v * 20 - 1500))
        ELSE PyNone

\* ------------------------------------------------------------------------
\* Update cycle
\* ------------------------------------------------------------------------
\* one assignment of _parse_status: skipped once an exception propagates
Raise(m) == [m EXCEPT !.exc = TRUE]

ParseFloor(m, data) ==
    IF m.exc \/ "t.1" \notin DOMAIN data THEN m
    ELSE LET x == TrueDiv(float(data["t.1"]), Sixteen)
         IN  IF x = Raised THEN Raise(m) ELSE [m EXCEPT !.self._floor_temperature = x]

\* mutant of ParseAir: t.2 is read whatever the generation
ParseAir_AnyGeneration(m, data) ==
    IF m.exc \/ "t.2" \notin DOMAIN data THEN m
    ELSE LET x == TrueDiv(float(data["t.2"]), Sixteen)
         IN  IF x = Raised THEN Raise(m) ELSE [m EXCEPT !.self._air_temperature = x]

ParseAir(m, data) ==
    IF m.exc \/ ~(m.self._is_new_version /\ "t.2" \in DOMAIN data) THEN m
    ELSE LET x == TrueDiv(float(data["t.2"]), Sixteen)
         IN  IF x = Raised THEN Raise(m) ELSE [m EXCEPT !.self._air_temperature = x]

\* mutant of ParseSetpoint: the new generation's status is read in tenths,
\* as its parameters are
ParseSetpoint_Tenths(m, data) ==
    IF m.exc \/ "t.5" \notin DOMAIN data THEN m
    ELSE LET x == TrueDiv(float(data["t.5"]), IF m.self._is_new_version THEN Ten ELSE Sixteen)
         IN  IF x = Raised THEN Raise(m) ELSE [m EXCEPT !.self._setpoint = x]

ParseSetpoint(m, data) ==
    IF m.exc \/ "t.5" \notin DOMAIN data THEN m
    ELSE LET x == TrueDiv(float(data["t.5"]), Sixteen)
         IN  IF x = Raised THEN Raise(m) ELSE [m EXCEPT !.self._setpoint = x]

\* mutant of ParseMode: without f.16 the device counts as switched on
ParseMode_FlagOnly(m, data) ==
    IF m.exc \/ "m.1" \notin DOMAIN data THEN m
    ELSE LET mode_value == int(data["m.1"])
             flag == IF "f.16" \in DOMAIN data THEN int(data["f.16"]) ELSE PyInt(0)
             is_on == flag.v = 0
         IN  IF mode_value = Raised \/ flag = Raised THEN Raise(m)
             ELSE IF ~is_on THEN [m EXCEPT !.self._mode = PyInt(-1)]
             ELSE [m EXCEPT !.self._mode = mode_value]

ParseMode(m, data) ==
    IF m.exc \/ "m.1" \notin DOMAIN data THEN m
    ELSE LET mode_value == int(data["m.1"])
             flag == IF "f.16" \in DOMAIN data THEN int(data["f.16"])
                     ELSE _get_param_value(m.self, POWER_OFF)
             is_on == IF "f.16" \in DOMAIN data THEN flag.v = 0 ELSE ~Truthy(flag)
         IN  IF mode_value = Raised \/ flag = Raised THEN Raise(m)
             ELSE IF ~is_on THEN [m EXCEPT !.self._mode = PyInt(-1)]
             ELSE [m EXCEPT !.self._mode = mode_value]

ParseRelay(m, data) ==
    IF m.exc \/ "f.0" \notin DOMAIN data THEN m
    ELSE LET x == int(data["f.0"])
         IN  IF x = Raised THEN Raise(m)
             ELSE [m EXCEPT !.self._relay_state = PyBool(x.v = 1)]

_parse_status(m, data) ==
    ParseRelay(ParseMode(ParseSetpoint(ParseAir(ParseFloor(m, data), data), data), data), data)

\* update, once get_status returned status_result
GotUpdate(status_result) ==
    IF status_result.m.exc THEN status_result
    ELSE IF ~Truthy(status_result.ret)
    THEN [m |-> status_result.m, ret |-> PyBool(FALSE)]
    ELSE LET q == _parse_status(status_result.m, status_result.ret.v)
             off == _get_param_value(q.self, POWER_OFF)
         IN  IF q.exc THEN [m |-> q, ret |-> Raised]
             ELSE IF off = Raised THEN [m |-> Raise(q), ret |-> Raised]
             ELSE [m |-> [q EXCEPT !.self._power_on = PyBool(~Truthy(off))],
                   ret |-> PyBool(TRUE)]

update(m, r1, d1, r2, d2) ==
    LET params_result == get_parameters(m, r1, d1)
    IN  IF params_result.m.exc THEN params_result
        ELSE IF ~Truthy(params_result.ret)
        THEN [m |-> params_result.m, ret |-> PyBool(FALSE)]
        ELSE GotUpdate(get_status(params_result.m, r2, d2))

\* ------------------------------------------------------------------------
\* Setters
\* ------------------------------------------------------------------------
\* bool(result) of a setter's return
Bool(r) == [m |-> r.m, ret |-> IF r.m.exc THEN Raised ELSE PyBool(Truthy(r.ret))]

\* mutant of set_setpoint: the setpoint is stored whatever the write returned
set_setpoint_Speculative(m, temperature, resp, dur) ==
    LET result == set_parameters(m,
                      << <<POWER_OFF, BOOL, str(0)>>,
                         <<MODE, UINT8, str(OperationMode_MANUAL)>>,
                         <<MANUAL_FLOOR, IF ~m.self._is_new_version THEN INT8 ELSE INT16,
                           _temperature_to_api(m.self, temperature, MANUAL_FLOOR)>> >>,
                      resp, dur)
    IN  Bool([result EXCEPT !.m.self._setpoint = temperature])

set_setpoint(m, temperature, resp, dur) ==
    LET ct == control_type(m.self)
        control_type_ == IF Truthy(ct) THEN ct ELSE PyInt(ControlType_FLOOR)
        param == IF PyEq(control_type_, PyInt(ControlType_FLOOR)) THEN MANUAL_FLOOR
                 ELSE IF m.self._is_new_version THEN MANUAL_AIR ELSE MANUAL_FLOOR
        temp_value == _temperature_to_api(m.self, temperature, param)
        result == set_parameters(m,
                      << <<POWER_OFF, BOOL, str(0)>>,
                         <<MODE, UINT8, str(OperationMode_MANUAL)>>,
                         <<param, IF ~m.self._is_new_version THEN INT8 ELSE INT16,
                           temp_value>> >>, resp, dur)
    IN  IF ct = Raised THEN [m |-> Raise(m), ret |-> Raised]
        ELSE IF ~result.m.exc /\ Truthy(result.ret)
        THEN Bool([result EXCEPT !.m.self._setpoint = temperature])
        ELSE Bool(result)

\* mutant of set_mode: the mode is written without clearing the power-off
\* parameter
set_mode_ModeOnly(m, mode_, resp, dur) ==
    IF mode_ \notin {OperationMode_SCHEDULE, OperationMode_MANUAL}
    THEN [m |-> Raise(m), ret |-> Raised]
    ELSE LET api_mode == IF mode_ = OperationMode_SCHEDULE THEN 0 ELSE 1
         IN  Bool(set_parameters(m,
                      << <<MODE, UINT8, str(api_mode)>> >>, resp, dur))

set_mode(m, mode_, resp, dur) ==
    IF mode_ \notin {OperationMode_SCHEDULE, OperationMode_MANUAL}
    THEN [m |-> Raise(m), ret |-> Raised]
    ELSE LET api_mode == IF mode_ = OperationMode_SCHEDULE THEN 0 ELSE 1
         IN  Bool(set_parameters(m,
                      << <<POWER_OFF, BOOL, str(0)>>,
                         <<MODE, UINT8, str(api_mode)>> >>, resp, dur))

turn_on(m, resp, dur) ==
    LET result == set_parameters(m, << <<POWER_OFF, BOOL, str(0)>> >>, resp, dur)
    IN  IF ~result.m.exc /\ Truthy(result.ret)
        THEN Bool([result EXCEPT !.m.self._power_on = PyBool(TRUE)])
        ELSE Bool(result)

\* turn_off, once set_parameters returned result
TurnedOff(result) ==
    IF ~result.m.exc /\ Truthy(result.ret)
    THEN Bool([result EXCEPT !.m.self._power_on = PyBool(FALSE)])
    ELSE Bool(result)

turn_off(m, resp, dur) ==
    TurnedOff(set_parameters(m, << <<POWER_OFF, BOOL, str(1)>> >>, resp, dur))

set_air_limits(m, lower, upper, resp, dur) ==
    IF ~m.self._is_new_version THEN [m |-> m, ret |-> PyBool(FALSE)]
    ELSE Bool(set_parameters(m,
                  << <<LOWER_AIR_LIMIT, INT8, str(lower)>>,
                     <<UPPER_AIR_LIMIT, INT8, str(upper)>> >>, resp, dur))

\* raise ValueError(...) before any request
ValueError(m) == [m |-> Raise(m), ret |-> Raised]

\* the capability check of a generation-only setter failed: return False
NotNewVersion(m) == [m |-> m, ret |-> PyBool(FALSE)]

set_control_type(m, control_type_, resp, dur) ==
    IF control_type_ \notin {0, 1, 2} THEN ValueError(m)
    ELSE Bool(set_parameters(m,
                  << <<CONTROL_TYPE, UINT8, str(control_type_)>> >>, resp, dur))

set_hysteresis(m, value, resp, dur) ==
    LET api_value == int(Times(value, 10)).v
    IN  Bool(set_parameters(m, << <<HYSTERESIS, UINT8, str(api_value)>> >>, resp, dur))

set_brightness(m, value, resp, dur) ==
    IF ~(0 <= value /\ value <= 9) THEN ValueError(m)
    ELSE Bool(set_parameters(m, << <<BRIGHTNESS, UINT8, str(value)>> >>, resp, dur))

set_window_open_control(m, enabled, resp, dur) ==
    IF ~m.self._is_new_version THEN NotNewVersion(m)
    ELSE Bool(set_parameters(m,
                  << <<WINDOW_OPEN_CONTROL, BOOL, IF enabled THEN str(1) ELSE str(0)>> >>,
                  resp, dur))

set_floor_limits(m, lower, upper, resp, dur) ==
    Bool(set_parameters(m,
             << <<LOWER_LIMIT, INT8, str(lower)>>,
                <<UPPER_LIMIT, INT8, str(upper)>> >>, resp, dur))

set_sensor_type(m, sensor_type, resp, dur) ==
    IF ~(0 <= sensor_type /\ sensor_type <= 6) THEN ValueError(m)
    ELSE Bool(set_parameters(m, << <<SENSOR_TYPE, UINT8, str(sensor_type)>> >>, resp, dur))

set_prop_koef(m, value, resp, dur) ==
    IF ~(0 <= value /\ value <= 30) THEN ValueError(m)
    ELSE Bool(set_parameters(m, << <<PROP_KOEF, UINT8, str(value)>> >>, resp, dur))

set_night_brightness_time(m, start_minutes, end_minutes, resp, dur) ==
    IF ~(0 <= start_minutes /\ start_minutes <= 1439)
       \/ ~(0 <= end_minutes /\ end_minutes <= 1439)
    THEN ValueError(m)
    ELSE Bool(set_parameters(m,
                  << <<NIGHT_BRIGHT_START, UINT16, str(start_minutes)>>,
                     <<NIGHT_BRIGHT_END, UINT16, str(end_minutes)>> >>, resp, dur))

set_button_corrections(m, minus, menu, plus, resp, dur) ==
    IF \E val \in {minus, menu, plus} : ~(-30 <= val /\ val <= 30) THEN ValueError(m)
    ELSE Bool(set_parameters(m,
                  << <<BUTTON_MINUS_COR, INT8, str(minus)>>,
                     <<BUTTON_MENU_COR, INT8, str(menu)>>,
                     <<BUTTON_PLUS_COR, INT8, str(plus)>> >>, resp, dur))

set_floor_correction(m, value, resp, dur) ==
    LET api_value == int(Times(value, 10)).v
    IN  IF ~(-127 <= api_value /\ api_value <= 127) THEN ValueError(m)
        ELSE Bool(set_parameters(m,
                      << <<FLOOR_CORRECTION, INT8, str(api_value)>> >>, resp, dur))

set_air_correction(m, value, resp, dur) ==
    IF ~m.self._is_new_version THEN NotNewVersion(m)
    ELSE LET api_value == int(Times(value, 10)).v
         IN  IF ~(-127 <= api_value /\ api_value <= 127) THEN ValueError(m)
             ELSE Bool(set_parameters(m,
                           << <<AIR_CORRECTION, INT8, str(api_value)>> >>, resp, dur))

set_advanced_floor_limits(m, min_temp, max_temp, resp, dur) ==
    IF ~m.self._is_new_version THEN NotNewVersion(m)
    ELSE Bool(set_parameters(m,
                  << <<MIN_TEMP_ADVANCED, INT8, str(min_temp)>>,
                     <<MAX_TEMP_ADVANCED, INT8, str(max_temp)>> >>, resp, dur))

set_ble_sensor_interval(m, minutes, resp, dur) ==
    IF ~m.self._is_new_version THEN NotNewVersion(m)
    ELSE IF ~(1 <= minutes /\ minutes <= 60) THEN ValueError(m)
    ELSE Bool(set_parameters(m,
                  << <<BLE_SENSOR_INTERVAL, UINT8, str(minutes)>> >>, resp, dur))

\* mutant of set_warning_temps: no capability check
set_warning_temps_AnyGeneration(m, lower, upper, resp, dur) ==
    Bool(set_parameters(m,
             << <<LOWER_WARNING_TEMP, INT8, str(lower)>>,
                <<UPPER_WARNING_TEMP, INT8, str(upper)>> >>, resp, dur))

set_warning_temps(m, lower, upper, resp, dur) ==
    IF ~m.self._is_new_version THEN NotNewVersion(m)
    ELSE Bool(set_parameters(m,
                  << <<LOWER_WARNING_TEMP, INT8, str(lower)>>,
                     <<UPPER_WARNING_TEMP, INT8, str(upper)>> >>, resp, dur))

\* mutant of set_away_temperature: a supplied air temperature is written on
\* either generation
set_away_temperature_AnyGeneration(m, floor_temp, air_temp, resp, dur) ==
    LET params == << <<AWAY_FLOOR, IF ~m.self._is_new_version THEN INT8 ELSE INT16,
                       _temperature_to_api(m.self, floor_temp, AWAY_FLOOR)>> >>
        more == IF air_temp # PyNone
                THEN << <<AWAY_AIR, INT16,
                          _temperature_to_api(m.self, air_temp, AWAY_AIR)>> >>
                ELSE <<>>
    IN  Bool(set_parameters(m, params \o more, resp, dur))

\* air_temp is PyNone when the caller leaves it out
set_away_temperature(m, floor_temp, air_temp, resp, dur) ==
    LET params == << <<AWAY_FLOOR, IF ~m.self._is_new_version THEN INT8 ELSE INT16,
                       _temperature_to_api(m.self, floor_temp, AWAY_FLOOR)>> >>
        more == IF m.self._is_new_version /\ air_temp # PyNone
                THEN << <<AWAY_AIR, INT16,
                          _temperature_to_api(m.self, air_temp, AWAY_AIR)>> >>
                ELSE <<>>
    IN  Bool(set_parameters(m, params \o more, resp, dur))

\* mutant of WattsToApi: one scale for every power
WattsToApi_OneScale(watts) == watts \div 10

\* set_power: watts to the wire value
WattsToApi(watts) ==
    IF watts <= 1500 THEN watts \div 10 ELSE (watts + 1500) \div 20

set_power(m, watts, resp, dur) ==
    Bool(set_parameters(m, << <<POWER, UINT16, str(WattsToApi(watts))>> >>, resp, dur))

\* ------------------------------------------------------------------------
\* Construction and the calls of a single caller, one after another
\* ------------------------------------------------------------------------
\* __init__ with the liveness probe answering HTTP code (a probe that raises
\* constructs no object)
Construct(device_type, code) ==
    [sn |-> SN, device_type |-> device_type,
     _is_new_version |-> (device_type = DEVICE_TYPE_NEW),
     _last_request |-> 0,
     _available |-> (code = 200),
     _parameters |-> EmptyDict, _status |-> EmptyDict,
     _setpoint |-> PyNone, _floor_temperature |-> PyNone,
     _air_temperature |-> PyNone, _mode |-> PyNone,
     _relay_state |-> PyNone, _power_on |-> PyNone]

ProbeCodes == {200, 404}
Durations == 0..MaxDur
Temperatures == {PyFloat(20 * FloatDen), PyFloat((245 * FloatDen) \div Ten)}
Modes == {OperationMode_SCHEDULE, OperationMode_MANUAL, 1}
Limits == {<<5, 30>>}
ParamLists ==
    { << <<UPPER_LIMIT, INT8, str(40)>> >>,
      << <<POWER_OFF, BOOL, str(1)>>, <<MODE, UINT8, str(0)>> >> }

Idle == [op |-> "idle"]

\* the host's executor threads: the coordinator's poll and an entity's call
Threads == {"poll", "entity"}
NoCall == [pc |-> "idle", op |-> "none", step |-> 0, timer |-> 0]

\* the thermostat as delivered: schedule mode, switched on; whether its
\* firmware reports f.16 in the status stays open
Factory == [par_mode |-> 0, power_off |-> 0, f16 |-> FALSE, since |-> "start"]

Init ==
    /\ \E device_type \in {DEVICE_TYPE_OLD, DEVICE_TYPE_NEW}, code \in ProbeCodes :
           self = Construct(device_type, code)
    /\ wire = LongAgo
    /\ last = Idle
    /\ threads = [t \in Threads |-> NoCall]
    /\ device = Factory

\* the call returned (or raised) r: the object is as the call left it, and
\* the instants are counted from the new present
Return(op, r) ==
    /\ last = Idle
    /\ self' = [r.m.self EXCEPT !._last_request = Ago(@, r.m.now)]
    /\ wire' = Ago(r.m.last_start, r.m.now)
    /\ last' = [op |-> op, pre |-> self, posts |-> r.m.posts,
                ret |-> IF r.m.exc THEN Raised ELSE r.ret]
    /\ UNCHANGED <<threads, device>>

\* the caller takes the result; the next call may follow at once
Done ==
    /\ last # Idle
    /\ last' = Idle
    /\ UNCHANGED <<self, wire, threads, device>>

\* time passes between two calls
Tick ==
    /\ self' = [self EXCEPT !._last_request = Ago(@, 1)]
    /\ wire' = Ago(wire, 1)
    /\ last' = Idle
    /\ UNCHANGED <<threads, device>>

\* The host's calls (update, the setters, restart), one after another; the
\* answers arrive at once.  update draws the answer to its second request
\* only when it sends one.
Update ==
    \E r1 \in ParamResponses :
        LET first == get_parameters(Frame, r1, 0)
        IN  IF first.m.exc \/ ~Truthy(first.ret)
            THEN Return("update", Bool(update(Frame, r1, 0, r1, 0)))
            ELSE \E r2 \in StatusResponses :
                     Return("update", Bool(update(Frame, r1, 0, r2, 0)))

Restart ==
    \E resp \in RestartResponses :
        Return("restart", restart(Frame, resp, 0))

SetSetpoint ==
    \E temperature \in Temperatures, resp \in WriteResponses :
        Return("set_setpoint", set_setpoint(Frame, temperature, resp, 0))

SetMode ==
    \E mode_ \in Modes, resp \in WriteResponses :
        Return("set_mode", set_mode(Frame, mode_, resp, 0))

TurnOn ==
    \E resp \in WriteResponses :
        Return("turn_on", turn_on(Frame, resp, 0))

TurnOff ==
    \E resp \in WriteResponses :
        Return("turn_off", turn_off(Frame, resp, 0))

SetAirLimits ==
    \E lim \in Limits, resp \in WriteResponses :
        Return("set_air_limits", set_air_limits(Frame, lim[1], lim[2], resp, 0))

Next ==
    \/ Done
    \/ Tick
    \/ Update
    \/ Restart
    \/ SetSetpoint
    \/ SetMode
    \/ TurnOn
    \/ TurnOff
    \/ SetAirLimits

Spec == Init /\ [][Next]_vars

\* The four protocol operations, one after another in any mix, each answer
\* taking up to MaxDur ticks.
ReadParameters ==
    \E resp \in ParamResponses, dur \in Durations :
        Return("get_parameters", get_parameters(Frame, resp, dur))

ReadStatus ==
    \E resp \in StatusResponses, dur \in Durations :
        Return("get_status", get_status(Frame, resp, dur))

WriteParameters ==
    \E params \in ParamLists, resp \in WriteResponses, dur \in Durations :
        Return("set_parameters", set_parameters(Frame, params, resp, dur))

RestartDevice ==
    \E resp \in RestartResponses, dur \in Durations :
        Return("restart", restart(Frame, resp, dur))

NextOps ==
    \/ Done
    \/ Tick
    \/ ReadParameters
    \/ ReadStatus
    \/ WriteParameters
    \/ RestartDevice

SpecOps == Init /\ [][NextOps]_vars

\* ------------------------------------------------------------------------
\* Conversions between Celsius, watts and the wire
\* ------------------------------------------------------------------------
\* a call with its arguments returned r: as Return, and the log keeps the
\* arguments
Returned(op, args, r) ==
    /\ last = Idle
    /\ self' = [r.m.self EXCEPT !._last_request = Ago(@, r.m.now)]
    /\ wire' = Ago(r.m.last_start, r.m.now)
    /\ last' = [op |-> op, args |-> args, pre |-> self, posts |-> r.m.posts,
                ret |-> IF r.m.exc THEN Raised ELSE r.ret]

Call(op, args, r) ==
    /\ Returned(op, args, r)
    /\ UNCHANGED <<threads, device>>

\* the wire type of a temperature parameter, as the setters declare it
TemperatureType(s) == IF ~s._is_new_version THEN INT8 ELSE INT16

\* Celsius values at the generation's resolution: whole degrees, tenths
CelsiusOf(s, k) ==
    IF s._is_new_version THEN PyFloat((k * FloatDen) \div Ten) ELSE PyFloat(k * FloatDen)

\* wire value -> _temperature_from_api -> _temperature_to_api
WireRoundTrip ==
    /\ last = Idle
    /\ \E x \in (0 - MaxWire)..MaxWire :
           LET celsius == _temperature_from_api(self, PyInt(x), MANUAL_FLOOR)
           IN  last' = [op |-> "wire_round_trip", args |-> <<PyInt(x)>>,
                        mid |-> celsius,
                        ret |-> _temperature_to_api(self, celsius, MANUAL_FLOOR)]
    /\ UNCHANGED <<self, wire, threads, device>>

\* Celsius -> _temperature_to_api -> the parameter as the device returns it
\* and _convert_value reads it -> _temperature_from_api
CelsiusRoundTrip ==
    /\ last = Idle
    /\ \E k \in (0 - MaxWire)..MaxWire :
           LET sent == _temperature_to_api(self, CelsiusOf(self, k), MANUAL_FLOOR)
               value == _convert_value(sent, TemperatureType(self))
           IN  last' = [op |-> "celsius_round_trip", args |-> <<CelsiusOf(self, k)>>,
                        mid |-> sent,
                        ret |-> _temperature_from_api(self, value, MANUAL_FLOOR)]
    /\ UNCHANGED <<self, wire, threads, device>>

SetPower ==
    /\ last = Idle
    /\ \E watts \in 0..MaxWatts, resp \in {TransportError, HttpResponse(200, BodySuccess)} :
           Call("set_power", <<watts>>, set_power(Frame, watts, resp, 0))

NextCodec ==
    \/ Done
    \/ WireRoundTrip
    \/ CelsiusRoundTrip
    \/ SetPower

SpecCodec == Init /\ [][NextCodec]_vars

\* ------------------------------------------------------------------------
\* The typed setters, called with values inside and outside their domains
\* ------------------------------------------------------------------------
\* n/10 as a Python float
Tenths(n) == PyFloat((n * FloatDen) \div Ten)

Brightnesses == {-1, 0, 9, 10}
SensorTypes == {-1, 0, 6, 7}
PropKoefs == {-1, 0, 30, 31}
ControlTypes == {-1, 0, 2, 3}
NightTimes == {<<0, 1439>>, <<-1, 0>>, <<0, 1440>>, <<1439, 0>>}
ButtonCorrections == {<<-30, 0, 30>>, <<-31, 0, 0>>, <<0, 31, 0>>, <<0, 0, 31>>}
Corrections == {Tenths(-128), Tenths(-127), Tenths(127), PyFloat((1275 * FloatDen) \div 100),
                Tenths(128)}
BleIntervals == {0, 1, 60, 61}
Setpoints == {Tenths(200), Tenths(245), Tenths(2000)}
LimitPairs == {<<5, 45>>, <<-200, 300>>}
Hystereses == {Tenths(5), Tenths(256), Tenths(-1)}
Powers == {-10, 1000, 2000}
AwayTemperatures == {<<Tenths(100), PyNone>>, <<Tenths(2000), Tenths(125)>>}

PollParams == {HttpResponse(200, BodyParNew), HttpResponse(200, BodyParOff)}
PollStatuses == {HttpResponse(200, BodyStatusOn), HttpResponse(200, BodyStatusOff)}

\* an update cycle that fills the cache
Poll ==
    /\ last = Idle
    /\ \E r1 \in PollParams, r2 \in PollStatuses :
           Call("update", <<>>, Bool(update(Frame, r1, 0, r2, 0)))

CallSetSetpoint ==
    /\ last = Idle
    /\ \E temperature \in Setpoints, resp \in WriteResponses :
           Call("set_setpoint", <<temperature>>, set_setpoint(Frame, temperature, resp, 0))

CallSetMode ==
    /\ last = Idle
    /\ \E mode_ \in Modes, resp \in WriteResponses :
           Call("set_mode", <<mode_>>, set_mode(Frame, mode_, resp, 0))

CallTurnOn ==
    /\ last = Idle
    /\ \E resp \in WriteResponses : Call("turn_on", <<>>, turn_on(Frame, resp, 0))

CallTurnOff ==
    /\ last = Idle
    /\ \E resp \in WriteResponses : Call("turn_off", <<>>, turn_off(Frame, resp, 0))

CallSetControlType ==
    /\ last = Idle
    /\ \E v \in ControlTypes, resp \in WriteResponses :
           Call("set_control_type", <<v>>, set_control_type(Frame, v, resp, 0))

CallSetHysteresis ==
    /\ last = Idle
    /\ \E v \in Hystereses, resp \in WriteResponses :
           Call("set_hysteresis", <<v>>, set_hysteresis(Frame, v, resp, 0))

CallSetBrightness ==
    /\ last = Idle
    /\ \E v \in Brightnesses, resp \in WriteResponses :
           Call("set_brightness", <<v>>, set_brightness(Frame, v, resp, 0))

CallSetWindowOpenControl ==
    /\ last = Idle
    /\ \E v \in BOOLEAN, resp \in WriteResponses :
           Call("set_window_open_control", <<v>>, set_window_open_control(Frame, v, resp, 0))

CallSetFloorLimits ==
    /\ last = Idle
    /\ \E v \in LimitPairs, resp \in WriteResponses :
           Call("set_floor_limits", v, set_floor_limits(Frame, v[1], v[2], resp, 0))

CallSetAirLimits ==
    /\ last = Idle
    /\ \E v \in LimitPairs, resp \in WriteResponses :
           Call("set_air_limits", v, set_air_limits(Frame, v[1], v[2], resp, 0))

CallSetSensorType ==
    /\ last = Idle
    /\ \E v \in SensorTypes, resp \in WriteResponses :
           Call("set_sensor_type", <<v>>, set_sensor_type(Frame, v, resp, 0))

CallSetPropKoef ==
    /\ last = Idle
    /\ \E v \in PropKoefs, resp \in WriteResponses :
           Call("set_prop_koef", <<v>>, set_prop_koef(Frame, v, resp, 0))

CallSetNightBrightnessTime ==
    /\ last = Idle
    /\ \E v \in NightTimes, resp \in WriteResponses :
           Call("set_night_brightness_time", v,
                set_night_brightness_time(Frame, v[1], v[2], resp, 0))

CallSetButtonCorrections ==
    /\ last = Idle
    /\ \E v \in ButtonCorrections, resp \in WriteResponses :
           Call("set_button_corrections", v,
                set_button_corrections(Frame, v[1], v[2], v[3], resp, 0))

CallSetFloorCorrection ==
    /\ last = Idle
    /\ \E v \in Corrections, resp \in WriteResponses :
           Call("set_floor_correction", <<v>>, set_floor_correction(Frame, v, resp, 0))

CallSetAirCorrection ==
    /\ last = Idle
    /\ \E v \in Corrections, resp \in WriteResponses :
           Call("set_air_correction", <<v>>, set_air_correction(Frame, v, resp, 0))

CallSetAdvancedFloorLimits ==
    /\ last = Idle
    /\ \E v \in LimitPairs, resp \in WriteResponses :
           Call("set_advanced_floor_limits", v,
                set_advanced_floor_limits(Frame, v[1], v[2], resp, 0))

CallSetBleSensorInterval ==
    /\ last = Idle
    /\ \E v \in BleIntervals, resp \in WriteResponses :
           Call("set_ble_sensor_interval", <<v>>, set_ble_sensor_interval(Frame, v, resp, 0))

CallSetWarningTemps ==
    /\ last = Idle
    /\ \E v \in LimitPairs, resp \in WriteResponses :
           Call("set_warning_temps", v, set_warning_temps(Frame, v[1], v[2], resp, 0))

CallSetAwayTemperature ==
    /\ last = Idle
    /\ \E v \in AwayTemperatures, resp \in WriteResponses :
           Call("set_away_temperature", v,
                set_away_temperature(Frame, v[1], v[2], resp, 0))

CallSetPower ==
    /\ last = Idle
    /\ \E v \in Powers, resp \in WriteResponses :
           Call("set_power", <<v>>, set_power(Frame, v, resp, 0))

NextSetters ==
    \/ Done
    \/ Tick
    \/ Poll
    \/ CallSetSetpoint
    \/ CallSetMode
    \/ CallTurnOn
    \/ CallTurnOff
    \/ CallSetControlType
    \/ CallSetHysteresis
    \/ CallSetBrightness
    \/ CallSetWindowOpenControl
    \/ CallSetFloorLimits
    \/ CallSetAirLimits
    \/ CallSetSensorType
    \/ CallSetPropKoef
    \/ CallSetNightBrightnessTime
    \/ CallSetButtonCorrections
    \/ CallSetFloorCorrection
    \/ CallSetAirCorrection
    \/ CallSetAdvancedFloorLimits
    \/ CallSetBleSensorInterval
    \/ CallSetWarningTemps
    \/ CallSetAwayTemperature
    \/ CallSetPower

SpecSetters == Init /\ [][NextSetters]_vars

\* ------------------------------------------------------------------------
\* The client against a thermostat that stores what is written
\* ------------------------------------------------------------------------
\* The thermostat keeps parameter 2 (mode: schedule=0, manual=1) and
\* parameter 125 (power off), and reports them in its answers: the stored
\* parameters in the read-parameters answer, the mode in status key m.1 as
\* an operation mode (schedule 0, manual 3), and the power state in f.16
\* when its firmware has that key.
RECURSIVE Store(_, _, _)
Store(d, par, i) ==
    IF i > Len(par) THEN d
    ELSE Store(IF par[i][1] = MODE THEN [d EXCEPT !.par_mode = int(par[i][3]).v]
               ELSE IF par[i][1] = POWER_OFF
               THEN [d EXCEPT !.power_off = int(par[i][3]).v]
               ELSE d,
               par, i + 1)

DevicePar(d) ==
    << <<MODE, UINT8, str(d.par_mode)>>, <<POWER_OFF, BOOL, str(d.power_off)>>,
       <<UPPER_LIMIT, UINT8, str(35)>> >>

DeviceStatusMode(d) == IF d.par_mode = 1 THEN OperationMode_MANUAL ELSE d.par_mode

DeviceStatus(d) ==
    [k \in {"t.1", "t.5", "m.1", "f.0"} \cup (IF d.f16 THEN {"f.16"} ELSE {}) |->
        CASE k = "t.1" -> str(384) [] k = "t.5" -> str(320)
          [] k = "m.1" -> str(DeviceStatusMode(d)) [] k = "f.0" -> str(0)
          [] k = "f.16" -> str(d.power_off)]

\* the answer to a write: the request reached the thermostat, which stored
\* it and acknowledged, or it was lost on the way
WriteAnswer(delivered) ==
    IF delivered THEN HttpResponse(200, BodySuccess) ELSE TransportError

\* the thermostat after the call that returned r; what names the last
\* change of its stored values
Written(r, delivered, what) ==
    IF delivered /\ Len(r.m.posts) > 0
    THEN [Store(device, r.m.posts[Len(r.m.posts)].json.par, 1) EXCEPT !.since = what]
    ELSE device

DeviceSetMode ==
    /\ last = Idle
    /\ \E mode_ \in Modes, delivered \in BOOLEAN :
           LET r == set_mode(Frame, mode_, WriteAnswer(delivered), 0)
           IN  /\ Returned("set_mode", <<mode_>>, r)
               /\ device' = Written(r, delivered,
                                    IF mode_ = OperationMode_MANUAL THEN "manual"
                                    ELSE "other")
    /\ UNCHANGED threads

DeviceTurnOn ==
    /\ last = Idle
    /\ \E delivered \in BOOLEAN :
           LET r == turn_on(Frame, WriteAnswer(delivered), 0)
           IN  /\ Returned("turn_on", <<>>, r)
               /\ device' = Written(r, delivered, "other")
    /\ UNCHANGED threads

DeviceTurnOff ==
    /\ last = Idle
    /\ \E delivered \in BOOLEAN :
           LET r == turn_off(Frame, WriteAnswer(delivered), 0)
           IN  /\ Returned("turn_off", <<>>, r)
               /\ device' = Written(r, delivered, "other")
    /\ UNCHANGED threads

\* an update cycle answered by the thermostat from what it stores, each of
\* the two answers arriving or not
DeviceUpdate ==
    /\ last = Idle
    /\ \E ok1 \in BOOLEAN, ok2 \in BOOLEAN :
           LET r1 == IF ok1
                     THEN HttpResponse(200, PyDict([k \in {"par"} |->
                                                       PyList(DevicePar(device))]))
                     ELSE TransportError
               r2 == IF ok2 THEN HttpResponse(200, PyDict(DeviceStatus(device)))
                     ELSE TransportError
           IN  Call("update", <<>>, Bool(update(Frame, r1, 0, r2, 0)))

\* a change from outside the client: the buttons, the cloud application, a
\* firmware upgrade
External ==
    /\ \E par_mode \in {0, 1}, power_off \in {0, 1}, f16 \in BOOLEAN :
           /\ device' = [par_mode |-> par_mode, power_off |-> power_off,
                         f16 |-> f16, since |-> "other"]
           /\ device' # device
    /\ UNCHANGED <<self, wire, last, threads>>

NextDevice ==
    \/ Done
    \/ Tick
    \/ DeviceSetMode
    \/ DeviceTurnOn
    \/ DeviceTurnOff
    \/ DeviceUpdate
    \/ External

SpecDevice == Init /\ [][NextDevice]_vars

\* ------------------------------------------------------------------------
\* Update cycles over the status keys and the power-off parameter
\* ------------------------------------------------------------------------
\* read-parameters answers: parameter 125 absent, "0", "1"
CyclePars ==
    { << <<UPPER_LIMIT, UINT8, str(35)>> >>,
      << <<UPPER_LIMIT, UINT8, str(35)>>, <<POWER_OFF, BOOL, str(0)>> >>,
      << <<UPPER_LIMIT, UINT8, str(35)>>, <<POWER_OFF, BOOL, str(1)>> >> }

\* a status mapping with the given keys; the values as JSON strings
StatusOf(keys, t1, t5, m1, f0, f16) ==
    [k \in keys |->
        CASE k = "t.1" -> str(t1) [] k = "t.5" -> str(t5) [] k = "m.1" -> str(m1)
          [] k = "f.0" -> str(f0) [] k = "f.16" -> str(f16)]

\* the same status with the values as JSON numbers
NumericStatus ==
    [k \in {"t.1", "t.5", "m.1", "f.0"} |->
        CASE k = "t.1" -> PyInt(384) [] k = "t.5" -> PyInt(320)
          [] k = "m.1" -> PyInt(3) [] k = "f.0" -> PyInt(1)]

CycleStatuses ==
    { StatusOf(keys, tf[1], tf[2], m1, tf[3], f16) :
          keys \in {{"t.1", "t.5", "m.1", "f.0"}, {"t.1", "t.5", "m.1", "f.0", "f.16"}},
          tf \in {<<384, 320, 1>>, <<401, 96, 0>>}, m1 \in {0, 3, 4}, f16 \in {0, 1} }
    \cup {StatusOf({"t.1", "f.16"}, 401, 320, 3, 1, 1), NumericStatus}

\* one update cycle: the device answers the first request with par and the
\* second with answer
Cycle ==
    /\ last = Idle
    /\ \E par \in CyclePars,
          answer \in {HttpResponse(200, PyDict(st)) : st \in CycleStatuses}
                     \cup {TransportError} :
           Call("update", <<par, answer>>,
                Bool(update(Frame, HttpResponse(200, PyDict([k \in {"par"} |-> PyList(par)])),
                            0, answer, 0)))

NextCycle ==
    \/ Done
    \/ Cycle

SpecCycle == Init /\ [][NextCycle]_vars

\* ------------------------------------------------------------------------
\* Answers of any HTTP status, and restart answers of any success value
\* ------------------------------------------------------------------------
HttpCodes == {200, 201, 404, 500}

\* restart answers: success as the string "true", as a boolean, as a number,
\* as another string, missing, beside a timeout status
S_false == PyStr(<<"f", "a", "l", "s", "e">>)
RestartBodies ==
    { PyDict([k \in {"success"} |-> v]) :
          v \in {S_true, S_false, PyBool(TRUE), PyInt(1)} }
    \cup { BodyStatusOn, BodyTimeout, BodyEmpty, BodyArray, Raised,
           PyDict([k \in {"success", "status"} |->
                      IF k = "success" THEN S_true ELSE S_timeout]) }

CallGetParameters ==
    /\ last = Idle
    /\ \E code \in HttpCodes,
          body \in {BodyParNew, BodyParOff, BodySuccess, BodyEmpty, Raised} :
           Call("get_parameters", <<HttpResponse(code, body)>>,
                get_parameters(Frame, HttpResponse(code, body), 0))

CallRestart ==
    /\ last = Idle
    /\ \E resp \in {HttpResponse(200, body) : body \in RestartBodies}
                   \cup {TransportError} :
           Call("restart", <<resp>>, restart(Frame, resp, 0))

NextAnswers ==
    \/ Done
    \/ Tick
    \/ CallGetParameters
    \/ CallRestart

SpecAnswers == Init /\ [][NextAnswers]_vars

\* ------------------------------------------------------------------------
\* The number entities of paired settings
\* ------------------------------------------------------------------------
\* x or d of Python, d an integer literal
Or(x, d) == IF Truthy(x) THEN x ELSE PyInt(d)

\* NUMBER_DESCRIPTIONS: set_fn of the entity with the given key
set_fn(key, m, v, resp, dur) ==
    CASE key = "night_bright_start" ->
           set_night_brightness_time(m, int(v).v, Or(night_bright_end(m.self), 480).v,
                                     resp, dur)
      [] key = "night_bright_end" ->
           set_night_brightness_time(m, Or(night_bright_start(m.self), 0).v, int(v).v,
                                     resp, dur)
      [] key = "upper_floor_limit" ->
           set_floor_limits(m, Or(lower_limit(m.self), 5).v, int(v).v, resp, dur)
      [] key = "button_minus_cor" ->
           set_button_corrections(m, int(v).v, Or(button_menu_cor(m.self), 0).v,
                                  Or(button_plus_cor(m.self), 0).v, resp, dur)

NumberKeys == {"night_bright_start", "night_bright_end", "upper_floor_limit",
               "button_minus_cor"}
NumberValues == {PyFloat(12 * FloatDen), PyFloat(30 * FloatDen)}

\* the paired settings as the device reports them: none, or values with a
\* zero among them
NumberPars ==
    { <<>>,
      << <<LOWER_LIMIT, INT8, str(10)>>, <<UPPER_LIMIT, INT8, str(40)>>,
         <<NIGHT_BRIGHT_START, UINT16, str(1320)>>, <<NIGHT_BRIGHT_END, UINT16, str(0)>>,
         <<BUTTON_MENU_COR, INT8, str(0)>>, <<BUTTON_PLUS_COR, INT8, str(-5)>> >>,
      << <<LOWER_LIMIT, INT8, str(5)>>, <<UPPER_LIMIT, INT8, str(45)>>,
         <<NIGHT_BRIGHT_START, UINT16, str(0)>>, <<NIGHT_BRIGHT_END, UINT16, str(420)>>,
         <<BUTTON_MENU_COR, INT8, str(10)>>, <<BUTTON_PLUS_COR, INT8, str(0)>> >> }

\* async_set_native_value: set_fn in an executor job, then the refresh the
\* entity requests from the coordinator, an update cycle
SetNativeValue ==
    /\ last = Idle
    /\ \E key \in NumberKeys, v \in NumberValues, par \in NumberPars,
          resp \in {TransportError, HttpResponse(200, BodySuccess)} :
           LET w == set_fn(key, Frame, v, resp, 0)
               r == IF w.m.exc THEN w
                    ELSE update(w.m,
                                HttpResponse(200, PyDict([k \in {"par"} |-> PyList(par)])),
                                0, HttpResponse(200, BodyStatusOn), 0)
           IN  Call("async_set_native_value", <<key, v>>, [m |-> r.m, ret |-> PyNone])

NextNumbers ==
    \/ Done
    \/ SetNativeValue

SpecNumbers == Init /\ [][NextNumbers]_vars

\* ------------------------------------------------------------------------
\* Calls started from executor threads
\* ------------------------------------------------------------------------
\* The host runs every call of the client through async_add_executor_job: the
\* coordinator's update in one thread, an entity's setter in another.  A call
\* is a sequence of steps of its thread: it enters _post and reads the clock
\* and _last_request, maybe sleeps, has its request on the wire, and handles
\* the answer.  The client holds no lock.
ParamAnswers == {TransportError, HttpResponse(200, BodyParNew)}
StatusAnswers == {TransportError, HttpResponse(200, BodyStatusOn)}
WriteAnswers == {TransportError, HttpResponse(200, BodySuccess)}

\* coordinator: hass.async_add_executor_job(thermostat.update)
StartUpdate ==
    /\ threads["poll"].pc = "idle"
    /\ threads' = [threads EXCEPT !["poll"] =
                      [pc |-> "post", op |-> "update", step |-> 1, timer |-> 0]]
    /\ UNCHANGED <<self, wire, last, device>>

\* entity: hass.async_add_executor_job(self._thermostat.turn_off)
StartSetter ==
    /\ threads["entity"].pc = "idle"
    /\ threads' = [threads EXCEPT !["entity"] =
                      [pc |-> "post", op |-> "turn_off", step |-> 1, timer |-> 0]]
    /\ UNCHANGED <<self, wire, last, device>>

\* the thread puts its request on the wire; the answer takes dur ticks
OnWire(t, dur) == [threads EXCEPT ![t].pc = "wire", ![t].timer = dur]

\* _post, rate limiting
EnterPost(t) ==
    /\ threads[t].pc = "post"
    /\ IF SendTime(Frame) > 0
       THEN threads' = [threads EXCEPT ![t].pc = "sleep", ![t].timer = SendTime(Frame)]
       ELSE \E dur \in Durations : threads' = OnWire(t, dur)
    /\ UNCHANGED <<self, wire, last, device>>

\* time.sleep(1) returns
Wake(t) ==
    /\ threads[t].pc = "sleep" /\ threads[t].timer = 0
    /\ \E dur \in Durations : threads' = OnWire(t, dur)
    /\ UNCHANGED <<self, wire, last, device>>

\* requests.post returns or raises, and the call goes on to its next request
\* or returns
Answer(t) ==
    /\ threads[t].pc = "wire" /\ threads[t].timer = 0
    /\ \E resp \in (IF threads[t].op = "turn_off" THEN WriteAnswers
                    ELSE IF threads[t].step = 1 THEN ParamAnswers ELSE StatusAnswers) :
           LET r == Answered(Frame, resp)
               out == IF threads[t].op = "turn_off" THEN TurnedOff(r)
                      ELSE IF threads[t].step = 1 THEN GotParameters(r)
                      ELSE GotUpdate(GotStatus(r))
               more == threads[t].op = "update" /\ threads[t].step = 1
                       /\ ~out.m.exc /\ Truthy(out.ret)
           IN  /\ self' = out.m.self
               /\ threads' = [threads EXCEPT ![t] =
                                 IF more THEN [@ EXCEPT !.pc = "post", !.step = 2]
                                 ELSE NoCall]
    /\ UNCHANGED <<wire, last, device>>

\* a tick of the clock
TickThreads ==
    /\ self' = [self EXCEPT !._last_request = Ago(@, 1)]
    /\ threads' = [t \in Threads |->
                      [threads[t] EXCEPT !.timer = IF @ > 0 THEN @ - 1 ELSE 0]]
    /\ UNCHANGED <<wire, last, device>>

NextThreads ==
    \/ StartUpdate
    \/ StartSetter
    \/ \E t \in Threads : EnterPost(t)
    \/ \E t \in Threads : Wake(t)
    \/ \E t \in Threads : Answer(t)
    \/ TickThreads

SpecThreads == Init /\ [][NextThreads]_vars

\* ------------------------------------------------------------------------
\* Properties
\* ------------------------------------------------------------------------
Called == last # Idle
True == PyBool(TRUE)
False == PyBool(FALSE)
Cache == CacheOf(self)
CacheBefore == CacheOf(last.pre)

\* the answer classes with which a request fails in the transport
TransportFailed(post) == post.answer = "error"
ReadFailed(post) == post.answer \in {"error", "not_json", "timeout", "empty"}
\* a usable answer to read-parameters, to read-status
ParamsRead(post) == post.answer = "par"
StatusRead(post) == post.answer \in {"object", "par", "ack"}
NoPar(post) == post.answer \in {"object", "ack", "empty"}

\* C1 (as stated): an update cycle that reports failure leaves the whole
\* cache (parameter table, stored status, derived fields) as it was before
\* the cycle.
C1_FailedCycleKeepsCache ==
    (Called /\ last.op = "update" /\ last.ret = False) => Cache = CacheBefore

\* C2: an update cycle whose read-parameters step succeeds and whose
\* read-status step fails (transport failure, unparseable body, timeout
\* status, empty body) leaves floor_temperature, setpoint and mode as they
\* were and reports failure.
C2_StatusFailureKeepsReadings ==
    (Called /\ last.op = "update" /\ Len(last.posts) = 2 /\ ReadFailed(last.posts[2]))
        => /\ floor_temperature(self) = floor_temperature(last.pre)
           /\ setpoint(self) = setpoint(last.pre)
           /\ mode(self) = mode(last.pre)
           /\ last.ret = False

C2_Witness ==
    /\ Called /\ last.op = "update" /\ Len(last.posts) = 2
    /\ ReadFailed(last.posts[2])
    /\ floor_temperature(last.pre) # PyNone
    /\ setpoint(last.pre) # PyNone
    /\ mode(last.pre) # PyNone
    /\ last.pre._parameters # self._parameters

Setters == {"set_setpoint", "set_mode", "turn_on", "turn_off", "set_air_limits"}

\* C3: an update cycle sends one read-parameters request and then, only if
\* that read succeeded, one read-status request, and nothing else; it
\* returns success exactly when both reads succeeded.  A setter or restart
\* call sends at most one request.
C3_RequestSequence ==
    /\ (Called /\ last.op = "update") =>
          /\ Len(last.posts) \in {1, 2}
          /\ last.posts[1].endpoint = "api"
          /\ last.posts[1].json = [cmd |-> CMD_GET_PARAMS, sn |-> SN]
          /\ Len(last.posts) = 2 <=> ParamsRead(last.posts[1])
          /\ Len(last.posts) = 2 =>
                /\ last.posts[2].endpoint = "api"
                /\ last.posts[2].json = [cmd |-> CMD_GET_STATUS, sn |-> SN]
          /\ last.ret = True <=> (Len(last.posts) = 2 /\ StatusRead(last.posts[2]))
    /\ (Called /\ last.op \in Setters \cup {"restart"}) => Len(last.posts) <= 1

C3_Witness ==
    /\ Called /\ last.op = "update" /\ Len(last.posts) = 2
    /\ last.posts[2].answer = "timeout"
    /\ last.ret = False

\* C4: every POST request is put on the wire at least one second after the
\* previous one was.
C4_OneSecondBetweenRequests ==
    Called => \A i \in 1..Len(last.posts) : last.posts[i].gap >= TicksPerSecond

\* a call made less than a second after the previous request: it waited
C4_Witness ==
    /\ Called /\ Len(last.posts) = 1
    /\ last.pre._last_request > LongAgo
    /\ last.posts[1].waited > 0
    /\ wire < 0

\* C5 (as stated): with update cycles and setter calls started from different
\* executor threads, no two requests to the device are on the wire at the
\* same time.
C5_OneRequestInFlight ==
    Cardinality({t \in Threads : threads[t].pc = "wire"}) <= 1

\* C6: a request that fails in the transport returns a failure result without
\* raising, makes the client unavailable, leaves the cache alone and stamps
\* the time of the attempt.
C6_TransportFailure ==
    (Called /\ Len(last.posts) = 1 /\ TransportFailed(last.posts[1]))
        => /\ last.ret = False
           /\ ~available(self)
           /\ Cache = CacheBefore
           /\ self._last_request = 0

C6_Witness ==
    /\ Called /\ Len(last.posts) = 1 /\ TransportFailed(last.posts[1])
    /\ available(last.pre)
    /\ last.pre._parameters # EmptyDict
    /\ last.pre._last_request = LongAgo
    /\ wire < 0

\* C7 (as stated): after a request answered with a valid JSON object the
\* client is available, whatever the answer means (a timeout status, no par).
C7_ValidJsonMakesAvailable ==
    (Called /\ Len(last.posts) = 1
        /\ last.posts[1].answer \in {"timeout", "empty", "object", "ack", "par"})
        => available(self)

\* C8 (as stated): a protocol error (unparseable body, read-parameters answer
\* without par, timeout status) leaves availability as it was.
ProtocolError ==
    /\ Called /\ Len(last.posts) = 1
    /\ \/ last.posts[1].answer \in {"not_json", "timeout"}
       \/ last.op = "get_parameters" /\ NoPar(last.posts[1])

C8_ProtocolErrorKeepsAvailability ==
    ProtocolError => available(self) = available(last.pre)

\* C8 (amended): an unparseable body or a timeout status leaves availability
\* as it was; a read-parameters answer without par makes the client available.
C8_ProtocolErrorNeverLowersAvailability ==
    ProtocolError =>
        IF last.posts[1].answer \in {"not_json", "timeout"}
        THEN available(self) = available(last.pre)
        ELSE available(self)

C8_Witness ==
    /\ ProtocolError
    /\ last.op = "get_parameters" /\ last.posts[1].answer = "ack"
    /\ ~available(last.pre)

\* C9: an answer that is unparseable, lacks the expected keys (par for
\* read-parameters, success for restart) or carries status timeout makes the
\* operation return a failure result, without raising and without touching
\* the cache.
C9_ProtocolErrorFailsQuietly ==
    (Called /\ Len(last.posts) = 1
        /\ \/ last.posts[1].answer \in {"not_json", "timeout"}
           \/ last.op = "get_parameters" /\ NoPar(last.posts[1])
           \/ last.op = "restart" /\ last.posts[1].answer \in {"object", "empty"})
        => /\ last.ret # Raised
           /\ ~Truthy(last.ret)
           /\ Cache = CacheBefore

C9_Witness ==
    /\ Called /\ last.op = "get_parameters" /\ last.posts[1].answer = "ack"
    /\ last.pre._parameters # EmptyDict
    /\ last.pre._status # EmptyDict

\* C10: on an old-generation client every generation-only getter returns
\* None, whatever the device answered.
C10_OldGenerationGettersAbsent ==
    self.device_type = DEVICE_TYPE_OLD =>
        /\ air_temperature(self) = PyNone
        /\ upper_air_limit(self) = PyNone
        /\ lower_air_limit(self) = PyNone
        /\ min_temp_advanced(self) = PyNone
        /\ max_temp_advanced(self) = PyNone
        /\ upper_warning_temp(self) = PyNone
        /\ lower_warning_temp(self) = PyNone
        /\ ble_sensor_interval(self) = PyNone
        /\ ble_sensor_bind(self) = PyNone
        /\ air_correction(self) = PyNone
        /\ window_open_control(self) = PyNone
        /\ away_air_temperature(self) = PyNone
        /\ manual_air_temperature(self) = PyNone

NewOnlyIds ==
    { MANUAL_AIR, AWAY_AIR, MIN_TEMP_ADVANCED, MAX_TEMP_ADVANCED, AIR_CORRECTION,
      UPPER_AIR_LIMIT, LOWER_AIR_LIMIT, BLE_SENSOR_INTERVAL, BLE_SENSOR_BIND,
      UPPER_WARNING_TEMP, LOWER_WARNING_TEMP, WINDOW_OPEN_CONTROL }

C10_Witness ==
    /\ self.device_type = DEVICE_TYPE_OLD
    /\ Called /\ last.op = "update" /\ last.ret = True
    /\ NewOnlyIds \subseteq DOMAIN self._parameters
    /\ "t.2" \in DOMAIN self._status
    /\ floor_temperature(self) # PyNone

\* the integer |a - b|
Distance(a, b) == IF a >= b THEN a - b ELSE b - a

\* C19: a wire temperature converted to Celsius and back is the same wire
\* value, and a Celsius value at the generation's resolution (whole degrees
\* for old, tenths for new) written and read back is the same value.
C19_TemperatureRoundTrip ==
    /\ (Called /\ last.op = "wire_round_trip") => int(last.ret) = last.args[1]
    /\ (Called /\ last.op = "celsius_round_trip") => last.ret = last.args[1]

C19_Witness ==
    /\ Called /\ last.op = "celsius_round_trip"
    /\ self._is_new_version
    /\ last.args[1] = PyFloat(0 - ((215 * FloatDen) \div Ten))
    /\ last.mid = str(-215)

\* the watts the client reads once the device returns the parameter written
WattsReadBack ==
    power_watts([self EXCEPT !._parameters = ParTable(last.posts[1].json.par)]).v

\* C20: set_power writes w div 10 for w <= 1500 and (w + 1500) div 20 above,
\* and power_watts reads back a value less than 10, respectively 20, away
\* from w.
C20_WattsRoundTrip ==
    (Called /\ last.op = "set_power") =>
        LET w == last.args[1]
            sent == int(last.posts[1].json.par[1][3]).v
        IN  IF w <= 1500
            THEN sent = w \div 10 /\ Distance(WattsReadBack, w) < 10
            ELSE sent = (w + 1500) \div 20 /\ Distance(WattsReadBack, w) < 20

C20_Witness ==
    /\ Called /\ last.op = "set_power" /\ last.ret = True
    /\ last.args[1] = 1519
    /\ last.posts[1].json.par = << <<POWER, UINT16, str(150)>> >>
    /\ WattsReadBack = 1500

\* the call sent nothing and left cache, availability and the rate-limit
\* timestamp as they were
NothingSent ==
    /\ last.posts = <<>>
    /\ Cache = CacheBefore
    /\ available(self) = available(last.pre)
    /\ self._last_request = last.pre._last_request

\* the argument of a setter lies outside the setter's documented domain
OutOfDomain ==
    \/ last.op = "set_brightness" /\ last.args[1] \notin 0..9
    \/ last.op = "set_sensor_type" /\ last.args[1] \notin 0..6
    \/ last.op = "set_prop_koef" /\ last.args[1] \notin 0..30
    \/ last.op = "set_control_type" /\ last.args[1] \notin {0, 1, 2}
    \/ last.op = "set_mode"
         /\ last.args[1] \notin {OperationMode_SCHEDULE, OperationMode_MANUAL}
    \/ last.op = "set_night_brightness_time"
         /\ (last.args[1] \notin 0..1439 \/ last.args[2] \notin 0..1439)
    \/ last.op = "set_button_corrections"
         /\ \E i \in 1..3 : last.args[i] \notin -30..30
    \/ last.op = "set_floor_correction"
         /\ (last.args[1].v < Tenths(-127).v \/ last.args[1].v > Tenths(127).v)
    \/ last.op = "set_ble_sensor_interval" /\ last.pre._is_new_version
         /\ last.args[1] \notin 1..60

\* C11 (as stated): a setter called with a value outside its documented
\* domain raises a validation error, sends nothing and leaves cache,
\* availability and the rate-limit timestamp unchanged.
C11_OutOfDomainRejected ==
    (Called /\ "args" \in DOMAIN last /\ OutOfDomain) => (last.ret = Raised /\ NothingSent)

\* the integers a wire type can hold
TypeRange(data_type) ==
    CASE data_type = INT8 -> -128..127
      [] data_type = UINT8 -> 0..255
      [] data_type = INT16 -> -32768..32767
      [] data_type = UINT16 -> 0..65535
      [] data_type = BOOL -> 0..1

\* C12 (as stated): every value a setter puts on the wire is representable
\* in the wire type declared in the same triple.
C12_WireValuesFitType ==
    Called => \A i \in 1..Len(last.posts) :
        "par" \in DOMAIN last.posts[i].json =>
            \A j \in 1..Len(last.posts[i].json.par) :
                int(last.posts[i].json.par[j][3]).v
                    \in TypeRange(last.posts[i].json.par[j][2])

GenerationOnlySetters ==
    {"set_air_limits", "set_window_open_control", "set_air_correction",
     "set_advanced_floor_limits", "set_ble_sensor_interval", "set_warning_temps"}

\* C13: on an old-generation client every generation-only setter returns
\* False for every input, sends nothing and leaves cache, availability and
\* the rate-limit timestamp unchanged.
C13_OldGenerationSettersRejected ==
    (Called /\ last.op \in GenerationOnlySetters /\ ~last.pre._is_new_version)
        => (last.ret = False /\ NothingSent)

C13_Witness ==
    /\ Called /\ last.op = "set_ble_sensor_interval" /\ ~last.pre._is_new_version
    /\ last.args[1] = 61
    /\ last.pre._parameters # EmptyDict
    /\ last.pre._last_request > LongAgo

AllSetters ==
    Setters \cup GenerationOnlySetters \cup
    {"set_control_type", "set_hysteresis", "set_brightness", "set_floor_limits",
     "set_sensor_type", "set_prop_koef", "set_night_brightness_time",
     "set_button_corrections", "set_floor_correction", "set_away_temperature",
     "set_power"}

\* C14: a setter whose write failed or whose input was rejected leaves
\* setpoint, power_on, mode and the parameter table as they were; set_setpoint
\* stores the new setpoint, turn_on and turn_off the new power state, when
\* the write returned success.
C14_StoredOnlyOnSuccess ==
    (Called /\ last.op \in AllSetters) =>
        /\ last.ret # True =>
              /\ setpoint(self) = setpoint(last.pre)
              /\ power_on(self) = power_on(last.pre)
              /\ mode(self) = mode(last.pre)
              /\ self._parameters = last.pre._parameters
        /\ (last.op = "set_setpoint" /\ last.ret = True) => setpoint(self) = last.args[1]
        /\ (last.op = "turn_on" /\ last.ret = True) => power_on(self) = True
        /\ (last.op = "turn_off" /\ last.ret = True) => power_on(self) = False

C14_Witness ==
    /\ Called /\ last.op = "set_setpoint" /\ last.ret = False
    /\ Len(last.posts) = 1 /\ last.posts[1].answer = "timeout"
    /\ setpoint(last.pre) # PyNone
    /\ setpoint(last.pre) # last.args[1]

\* the wire value of a mode: schedule is 0, manual is 1
WireMode(mode_) == IF mode_ = OperationMode_SCHEDULE THEN str(0) ELSE str(1)

\* the temperature as the generation encodes it: tenths, whole degrees
WireTemperature(s, temperature) ==
    IF s._is_new_version
    THEN str((temperature.v * Ten) \div FloatDen)
    ELSE str(temperature.v \div FloatDen)

\* C15 (as stated): set_setpoint sends exactly one write request, which
\* carries power-off "0", the mode set to manual and the manual setpoint
\* parameter with the generation-encoded temperature.
C15_SetpointBundle ==
    (Called /\ last.op = "set_setpoint") =>
        /\ Len(last.posts) = 1
        /\ Len(last.posts[1].json.par) = 3
        /\ last.posts[1].json.par[1] = <<POWER_OFF, BOOL, str(0)>>
        /\ last.posts[1].json.par[2] = <<MODE, UINT8, WireMode(OperationMode_MANUAL)>>
        /\ last.posts[1].json.par[3][1] \in {MANUAL_FLOOR, MANUAL_AIR}
        /\ last.posts[1].json.par[3][3] = WireTemperature(last.pre, last.args[1])

CycleSucceeded == Called /\ last.op = "update" /\ last.ret = True /\ Len(last.args) = 2
CyclePar == last.args[1]
CycleStatus == last.args[2].body.v

\* the value of key k is the number n, as a JSON string or a JSON number
Carries(k, n) == k \in DOMAIN CycleStatus /\ CycleStatus[k] \in {str(n), PyInt(n)}

\* the raw temperatures of the status answers
RawTemperatures == {96, 320, 384, 401}

\* the power-off flag: f.16 = 1, or without f.16 parameter 125 true
PowerOffFlag ==
    IF "f.16" \in DOMAIN CycleStatus THEN Carries("f.16", 1)
    ELSE \E i \in 1..Len(CyclePar) :
             CyclePar[i][1] = POWER_OFF /\ CyclePar[i][3] = str(1)

WorkedExample ==
    /\ CycleSucceeded
    /\ self._is_new_version
    /\ \E i \in 1..Len(CyclePar) : CyclePar[i] = <<UPPER_LIMIT, UINT8, str(35)>>
    /\ DOMAIN CycleStatus = {"t.1", "t.5", "m.1", "f.0"}
    /\ Carries("t.1", 384) /\ Carries("t.5", 320)
    /\ Carries("m.1", 3) /\ Carries("f.0", 1)
    /\ ~PowerOffFlag

\* C18: status decoding is the same for both generations: after a
\* successful update floor_temperature = t.1 / 16, setpoint = t.5 / 16,
\* relay_state = (f.0 = 1) and, with no power-off flag, mode = m.1; in the
\* worked example upper_limit = 35, floor temperature 24.0, setpoint 20.0,
\* mode 3 and the relay on.
C18_StatusDecoding ==
    /\ CycleSucceeded =>
        /\ "t.1" \in DOMAIN CycleStatus =>
               /\ floor_temperature(self).t = "float"
               /\ \E n \in RawTemperatures :
                      Carries("t.1", n) /\ floor_temperature(self).v * 16 = n * FloatDen
        /\ "t.5" \in DOMAIN CycleStatus =>
               /\ setpoint(self).t = "float"
               /\ \E n \in RawTemperatures :
                      Carries("t.5", n) /\ setpoint(self).v * 16 = n * FloatDen
        /\ "f.0" \in DOMAIN CycleStatus =>
               relay_state(self) = PyBool(Carries("f.0", 1))
        /\ ("m.1" \in DOMAIN CycleStatus /\ ~PowerOffFlag) =>
               mode(self).t = "int" /\ Carries("m.1", mode(self).v)
    /\ WorkedExample =>
        /\ upper_limit(self) = PyInt(35)
        /\ floor_temperature(self) = PyFloat(24 * FloatDen)
        /\ setpoint(self) = PyFloat(20 * FloatDen)
        /\ mode(self) = PyInt(OperationMode_MANUAL)
        /\ relay_state(self) = PyBool(TRUE)

\* the worked example on a new-generation client whose cache held other
\* values before
C18_Witness ==
    /\ WorkedExample
    /\ CycleStatus["t.1"] = str(384)
    /\ floor_temperature(last.pre) # PyNone
    /\ floor_temperature(last.pre) # floor_temperature(self)
    /\ floor_temperature(self) = PyFloat(24 * FloatDen)

\* the answer a call of SpecAnswers got
Answer1 == last.args[1]
JsonObject(resp) == resp.kind = "http" /\ resp.body # Raised /\ resp.body.t = "dict"

\* C21 (as stated): get_parameters reports success and replaces the cached
\* parameter table only for a 2xx response whose body contains par; for a
\* non-2xx status, whatever the body, or a body without par it reports
\* failure and keeps the table.
C21_ParametersNeedOkAndPar ==
    (Called /\ last.op = "get_parameters" /\ JsonObject(Answer1)) =>
        IF Answer1.code \div 100 = 2 /\ "par" \in DOMAIN Answer1.body.v
        THEN /\ Truthy(last.ret)
             /\ self._parameters = ParTable(Answer1.body.v["par"].v)
        ELSE /\ last.ret = False
             /\ self._parameters = last.pre._parameters

\* C22: restart sends one request {cmd: "restart"} to the test endpoint; it
\* returns True exactly when the answer is an object whose success field is
\* the string "true" (and that is no timeout answer), False for a boolean
\* true, a number 1, a missing field, a timeout status, a transport failure
\* (an answer that is no JSON object is not among these cases); it never
\* changes the cached parameters or the derived state.
C22_RestartSuccessIsStringTrue ==
    (Called /\ last.op = "restart") =>
        /\ Len(last.posts) = 1
        /\ last.posts[1].endpoint = "test"
        /\ last.posts[1].json = [cmd |-> "restart"]
        /\ last.posts[1].answer # "not_object" => last.ret \in {True, False}
        /\ last.ret = True <=>
               /\ JsonObject(Answer1)
               /\ "success" \in DOMAIN Answer1.body.v
               /\ Answer1.body.v["success"] = S_true
               /\ "status" \notin DOMAIN Answer1.body.v
        /\ Cache = CacheBefore

\* restart answered with success as a boolean true, on a client with a
\* filled parameter table
C22_Witness ==
    /\ Called /\ last.op = "restart"
    /\ JsonObject(Answer1)
    /\ "success" \in DOMAIN Answer1.body.v
    /\ Answer1.body.v["success"] = PyBool(TRUE)
    /\ last.ret = False
    /\ last.pre._parameters # EmptyDict

\* the cache as construction leaves it: the parameter table empty, every
\* state getter and parameter getter absent
Unpopulated(s) ==
    /\ s._parameters = EmptyDict
    /\ floor_temperature(s) = PyNone /\ setpoint(s) = PyNone /\ mode(s) = PyNone
    /\ relay_state(s) = PyNone /\ power_on(s) = PyNone
    /\ upper_limit(s) = PyNone /\ control_type(s) = PyNone

\* C23 (as stated): the cache that construction leaves unpopulated stays so
\* until the first update cycle in which both reads succeed: an update that
\* does not succeed on a client with an unpopulated cache leaves the
\* parameter table empty and every getter absent.
C23_UnpopulatedUntilFirstCycle ==
    (Called /\ last.op = "update" /\ last.ret # True /\ Unpopulated(last.pre)) =>
        Unpopulated(self)

\* C24 (as stated): every write-parameters request that carries the mode
\* parameter (id 2) carries the wire value "0" or "1"; the client-facing
\* value 3 is never put on the wire.
C24_ModeOnWireIsZeroOrOne ==
    Called =>
        \A i \in 1..Len(last.posts) :
            "par" \in DOMAIN last.posts[i].json =>
                \A j \in 1..Len(last.posts[i].json.par) :
                    last.posts[i].json.par[j][1] = MODE =>
                        last.posts[i].json.par[j][3] \in {str(0), str(1)}

\* the recognized keys behind the derived fields of either generation
DerivedKeys == {"t.1", "t.5", "m.1", "f.0"}

\* the derived status fields
Derived(s) ==
    <<floor_temperature(s), setpoint(s), mode(s), relay_state(s), s._air_temperature>>

\* C25 (as stated): the derived status fields all come from one status
\* response: a successful cycle whose status lacks a recognized key either
\* leaves all of them as they were or leaves none of an earlier cycle's
\* values behind (the fields of the missing keys are absent).
C25_DerivedFieldsFromOneStatus ==
    (CycleSucceeded /\ ~(DerivedKeys \subseteq DOMAIN CycleStatus)) =>
        \/ Derived(self) = Derived(last.pre)
        \/ /\ "t.1" \notin DOMAIN CycleStatus => floor_temperature(self) = PyNone
           /\ "t.5" \notin DOMAIN CycleStatus => setpoint(self) = PyNone
           /\ "m.1" \notin DOMAIN CycleStatus => mode(self) = PyNone
           /\ "f.0" \notin DOMAIN CycleStatus => relay_state(self) = PyNone

\* C26 (as stated): after every successful update cycle whose status
\* carries a mode, the mode getter returns the off sentinel -1 if and only
\* if power_on is false, for f.16 absent, 0 or 1 and parameter 125 absent,
\* "0" or "1".
C26_PowerViewsAgree ==
    (CycleSucceeded /\ "m.1" \in DOMAIN CycleStatus) =>
        (mode(self) = PyInt(-1) <=> power_on(self) = False)

\* the answer to the last request of the call that returned
LastAnswer == last.posts[Len(last.posts)].answer

\* C27 (as stated): no operation raises on a received response: on a body
\* that is valid JSON but no object, a par list with an entry shorter than
\* three elements, or a status value that is not numeric, the operation
\* returns failure and update returns False.
C27_NoRaiseOnReceivedResponse ==
    (Called /\ Len(last.posts) > 0
            /\ LastAnswer \in {"not_object", "par_short", "undecodable"}
            /\ last.op \in {"update", "get_parameters", "get_status", "set_parameters"}) =>
        last.ret = False

\* C28 (as stated): status parsing is all-or-nothing: when decoding a
\* recognized status field fails, floor temperature, air temperature,
\* setpoint, mode, relay state and power_on are as before the update cycle.
C28_StatusParsingAllOrNothing ==
    (Called /\ last.op = "update" /\ Len(last.posts) = 2
            /\ LastAnswer = "undecodable") =>
        /\ Derived(self) = Derived(last.pre)
        /\ power_on(self) = power_on(last.pre)

\* the parameter ids only the new generation has
NewGenerationOnly ==
    { MANUAL_AIR, AWAY_AIR, MIN_TEMP_ADVANCED, MAX_TEMP_ADVANCED, AIR_CORRECTION,
      UPPER_AIR_LIMIT, LOWER_AIR_LIMIT, BLE_SENSOR_INTERVAL, UPPER_WARNING_TEMP,
      LOWER_WARNING_TEMP, WINDOW_OPEN_CONTROL }

\* C29: an old-generation client never sends a write request with a
\* new-generation-only parameter id, whatever the setter and the cache:
\* set_setpoint writes manual-floor (id 5, INT8) even with the cached control
\* type air, and set_away_temperature writes away-floor (id 7) alone even
\* when given an air temperature.
C29_OldGenerationWritesOldIds ==
    (Called /\ ~last.pre._is_new_version) =>
        /\ \A i \in 1..Len(last.posts) :
               "par" \in DOMAIN last.posts[i].json =>
                   \A j \in 1..Len(last.posts[i].json.par) :
                       last.posts[i].json.par[j][1] \notin NewGenerationOnly
        /\ (last.op = "set_setpoint" /\ Len(last.posts) > 0) =>
               /\ last.posts[1].json.par[3][1] = MANUAL_FLOOR
               /\ last.posts[1].json.par[3][2] = INT8
        /\ (last.op = "set_away_temperature" /\ Len(last.posts) > 0) =>
               /\ Len(last.posts[1].json.par) = 1
               /\ last.posts[1].json.par[1][1] = AWAY_FLOOR

\* set_setpoint on an old-generation client whose cached control type is air
C29_Witness ==
    /\ Called /\ last.op = "set_setpoint"
    /\ ~last.pre._is_new_version
    /\ control_type(last.pre) = PyInt(1)
    /\ Len(last.posts) = 1
    /\ last.posts[1].json.par[3][1] = MANUAL_FLOOR

\* the value the cache held for parameter id before the call, as the device
\* reported it, or the fallback when the cache had none
CachedOr(id, fallback) ==
    IF id \in DOMAIN last.pre._parameters THEN last.pre._parameters[id][2]
    ELSE str(fallback)

\* the write request of a number entity carries the triple of parameter id
\* with value
Writes(id, value) ==
    \E j \in 1..Len(last.posts[1].json.par) :
        /\ last.posts[1].json.par[j][1] = id
        /\ last.posts[1].json.par[j][3] = value

\* C30 (as stated): a number entity of a paired setting writes the partner
\* with its cached value, whatever that value is, 0 included, and a
\* fallback only when the cache has none.
C30_PartnerKeepsCachedValue ==
    (Called /\ last.op = "async_set_native_value" /\ Len(last.posts) > 0) =>
        /\ last.args[1] = "night_bright_start" => Writes(NIGHT_BRIGHT_END, CachedOr(NIGHT_BRIGHT_END, 480))
        /\ last.args[1] = "night_bright_end" => Writes(NIGHT_BRIGHT_START, CachedOr(NIGHT_BRIGHT_START, 0))
        /\ last.args[1] = "upper_floor_limit" => Writes(LOWER_LIMIT, CachedOr(LOWER_LIMIT, 5))
        /\ last.args[1] = "button_minus_cor" =>
               /\ Writes(BUTTON_MENU_COR, CachedOr(BUTTON_MENU_COR, 0))
               /\ Writes(BUTTON_PLUS_COR, CachedOr(BUTTON_PLUS_COR, 0))

====
